---------------------------- MODULE Spec2Model ----------------------------
(***************************************************************************)
(* A model of jax/_src/sqlite_cache.py: SqliteCache, a size-bounded        *)
(* key -> bytes cache kept in one SQLite file (cache.db).                  *)
(*                                                                         *)
(* The database file is modelled by user_version (PRAGMA user_version),    *)
(* has_table (whether cache_entries exists) and cache_entries (the rows,   *)
(* a function from the keys present to their content, size and             *)
(* last_accessed columns).                                                 *)
(*                                                                         *)
(* Reading of the source.  The module is modelled at the level of its      *)
(* statements: each sqlite3 call does what its SQL text says.  Line 46     *)
(* (a stray quote after "IMMEDATE") and line 62 (an unfinished expression  *)
(* after the return) are read without the stray text; line 49 is read as   *)
(* binding db_version to the stamped integer and line 51 as stamping       *)
(* _DB_SCHEMA_VERSION.  The connection is opened with autocommit=False, so *)
(* every `with self._connection:` block is one deferred transaction that   *)
(* commits when the block is left normally and rolls back when it is left  *)
(* by an exception.                                                        *)
(*                                                                         *)
(* Sizes are scaled: the budget of 10e6 bytes is size_limit bytes here.    *)
(*                                                                         *)
(* Specifications.  Spec: one process opens, uses and leaves the store,    *)
(* each get and put as one step.  SpecLive: Spec with the loop of __init__ *)
(* run as often as the code runs it, and fairness of its steps.  SpecLru:  *)
(* gets and puts on three keys.  SpecConc: get and put statement by        *)
(* statement, by threads of two processes.  SpecFair: the same on one key,  *)
(* under fair scheduling.  SpecSetup: _setup statement by statement, by    *)
(* two processes opening the same path.                                    *)
(***************************************************************************)
EXTENDS Integers, Sequences, FiniteSets, TLC

\* ------------------------------------------------------------------ bounds
\* The byte budget self._size_limit (10e6 in the source), scaled down.
size_limit == 2
\* The longest content a caller passes: one byte more than the budget.
MaxLen == size_limit + 1
\* The largest reading of time.time().
MaxTime == 2
\* How many times one open may go through the recovery branch in the model.
MaxRecover == 2
\* How many get and put calls the threads of the concurrent model make in all.
MaxCalls == 3

\* --------------------------------------------------------------- constants
DB_SCHEMA_VERSION == 1
\* The schema version of another release of the program sharing the file.
OtherVersion == DB_SCHEMA_VERSION + 1

\* The non-empty keys callers use; "" is the empty key.
Keys == {"a", "b"}
AllKeys == Keys \cup {""}
\* The byte values that occur in contents.
Byte == {0}
\* bytes objects of at most MaxLen bytes.
Values == UNION {[1..n -> Byte] : n \in 0..MaxLen}

\* Python's None, and a value that is present.
None == << >>
Some(v) == << v >>

VARIABLES
  file_exists,    \* cache.db exists in the directory
  user_version,   \* PRAGMA main.user_version of the file
  has_table,      \* the table cache_entries exists
  cache_entries,  \* the committed rows: key -> [content, size, last_accessed]
  pc,             \* where the process is: closed, recreate, retry, open
  recoveries,     \* passes through the body of the while loop in this __init__
  opened_from,    \* what the file was when this __init__ started
  clock,          \* the last reading of time.time()
  lastOp,         \* the last get or put of this instance and what it returned
  \* The statement-level model of get and put run by several threads:
  tpc,            \* thread -> the statement it is at
  targ,           \* thread -> the call it is in: [op, key, val]
  tseen,          \* thread -> the row its SELECT returned (None: no row)
  tret,           \* thread -> what its last call returned or raised
  db_lock,        \* process -> the thread holding self._db_lock, or "free"
  work,           \* process -> the uncommitted rows of its connection's transaction
  shared,         \* the connections holding SQLite's SHARED lock on the file
  reserved,       \* the connection holding the RESERVED lock, or "none"
  pending,        \* the connection whose commit waits for the readers, or "none"
  calls,          \* the calls started so far
  committed       \* every <<key, row>> a commit has made durable

seqvars == << file_exists, user_version, has_table, pc, recoveries, opened_from, lastOp >>
concvars == << tpc, targ, tseen, tret, db_lock, work, shared, reserved, pending,
               calls, committed >>
vars == << file_exists, user_version, has_table, cache_entries, pc, recoveries,
           opened_from, clock, lastOp, tpc, targ, tseen, tret, db_lock, work,
           shared, reserved, pending, calls, committed >>

\* Two threads share the SqliteCache of process p1; a third runs in process p2,
\* which has opened the same file.
Threads == {"t1", "t2", "t3"}
Procs == {"p1", "p2"}
ProcOf(t) == IF t = "t3" THEN "p2" ELSE "p1"

NoCall == [op |-> "none", key |-> "", val |-> None]
\* What a call gave back: kind is none (no call finished), absent (None),
\* bytes (val), ok (put returned), ValueError or OperationalError.
NoRet == [kind |-> "none", val |-> None]
Ret(kind) == [kind |-> kind, val |-> None]
ConcIdle ==
  /\ tpc = [t \in Threads |-> "idle"]
  /\ targ = [t \in Threads |-> NoCall]
  /\ tseen = [t \in Threads |-> None]
  /\ tret = [t \in Threads |-> NoRet]
  /\ db_lock = [p \in Procs |-> "free"]
  /\ work = [p \in Procs |-> None]
  /\ shared = {}
  /\ reserved = "none"
  /\ pending = "none"
  /\ calls = 0
  /\ committed = {}

NoRows == [k \in {} |-> 0]

\* lastOp: the call, its result, and for a put what its sweep met: the keys it
\* deleted and whether the rows it ordered had pairwise distinct last_accessed,
\* and the key that a get found just before the put ("" when the call before
\* was no get that found its key).
NoOp == [op |-> "none", key |-> "", val |-> None, ret |-> None, raised |-> "",
         evicted |-> {}, distinct |-> FALSE, after |-> ""]

\* ----------------------------------------------------------- pure helpers
RECURSIVE SumSize(_, _)
\* SUM(size) over the rows of `rows` whose key is in S.
SumSize(rows, S) ==
  IF S = {} THEN 0
  ELSE LET k == CHOOSE x \in S : TRUE
       IN rows[k].size + SumSize(rows, S \ {k})

TotalSize(rows) == SumSize(rows, DOMAIN rows)

\* The sequences listing every key of S once.
Perms(S) ==
  {f \in [1..Cardinality(S) -> S] :
     \A i, j \in 1..Cardinality(S) : i # j => f[i] # f[j]}

\* ORDER BY last_accessed DESC: the orders the window may see the rows in.
\* Rows with equal last_accessed are peers, and SQL fixes no order among them.
RecencyOrders(rows) ==
  {ord \in Perms(DOMAIN rows) :
     \A i, j \in 1..Len(ord) :
        i < j => rows[ord[i]].last_accessed >= rows[ord[j]].last_accessed}

\* SUM(size) OVER (... ROWS BETWEEN UNBOUNDED PRECEDING AND CURRENT ROW)
\* for the row at position i of ord.
CumSize(rows, ord, i) == SumSize(rows, {ord[j] : j \in 1..i})

\* Variant: the window without the current row (a frame ending 1 PRECEDING).
CumSizeExclusive(rows, ord, i) == SumSize(rows, {ord[j] : j \in 1..(i - 1)})

\* Variant of EvictedKeys: the running size leaves out the row itself.
EvictedKeysExclusive(rows, ord) ==
  {ord[i] : i \in {j \in 1..Len(ord) : CumSizeExclusive(rows, ord, j) > size_limit}}

\* Variant of EvictedKeys: the running size is summed from the oldest row
\* (ORDER BY last_accessed ASC).
EvictedKeysOldestKept(rows, ord) ==
  {ord[i] : i \in {j \in 1..Len(ord) :
      SumSize(rows, {ord[m] : m \in j..Len(ord)}) > size_limit}}

\* The keys the DELETE statement of put removes: WHERE cumsize > :limit.
EvictedKeys(rows, ord) ==
  {ord[i] : i \in {j \in 1..Len(ord) : CumSize(rows, ord, j) > size_limit}}

Restrict(rows, S) == [k \in S |-> rows[k]]

\* INSERT ... ON CONFLICT(key) DO UPDATE SET content=excluded.content,
\* last_accessed=:now.  On a conflict the size column is left as it was.
Upsert(rows, key, value, now) ==
  IF key \in DOMAIN rows
    THEN [rows EXCEPT ![key].content = value, ![key].last_accessed = now]
    ELSE [k \in DOMAIN rows \cup {key} |->
            IF k = key
              THEN [content |-> value, size |-> Len(value), last_accessed |-> now]
              ELSE rows[k]]

\* Variant of EmptyKey: no key is refused.
EmptyKeyAccepted(key) == FALSE

\* `not key` (lines 67, 84): the key is the empty string.
EmptyKey(key) == key = ""

\* Variant of fetchone: a key that has no row gets the row of some other key.
fetchoneAnyRow(rows, key) ==
  IF key \in DOMAIN rows THEN Some(rows[key])
  ELSE IF DOMAIN rows = {} THEN None
  ELSE Some(rows[CHOOSE k \in DOMAIN rows : TRUE])

\* SELECT ... WHERE key = ? and res.fetchone() (lines 71-72): the row of the
\* key, or None when there is none.
fetchone(rows, key) == IF key \in DOMAIN rows THEN Some(rows[key]) ELSE None

\* Variant of Touch: the UPDATE without its WHERE clause.
TouchEveryRow(rows, key, now) ==
  [k \in DOMAIN rows |-> [rows[k] EXCEPT !.last_accessed = now]]

\* Variant of Touch: get leaves last_accessed as it was.
TouchNothing(rows, key, now) == rows

\* UPDATE cache_entries SET last_accessed = :now WHERE key = :key (lines 76-79).
Touch(rows, key, now) ==
  [k \in DOMAIN rows |->
     IF k = key THEN [rows[k] EXCEPT !.last_accessed = now] ELSE rows[k]]

DistinctTimes(rows) ==
  \A j, k \in DOMAIN rows : j # k => rows[j].last_accessed # rows[k].last_accessed

\* The readings time.time() may give after `clock`: the wall clock does not
\* run backwards here, and two calls may read the same value.
Readings == {t \in {clock, clock + 1} : t <= MaxTime}

\* ------------------------------------------------------------------- Init
Init ==
  /\ \/ /\ file_exists = FALSE     \* no cache.db yet
        /\ user_version = 0
        /\ has_table = FALSE
     \/ /\ file_exists = TRUE      \* an empty file: nothing stamped
        /\ user_version = 0
        /\ has_table = FALSE
     \/ /\ file_exists = TRUE      \* a file left by another release
        /\ user_version = OtherVersion
        /\ has_table = TRUE
  /\ cache_entries = NoRows
  /\ pc = "closed"
  /\ recoveries = 0
  /\ opened_from = "none"
  /\ clock = 0
  /\ lastOp = NoOp
  /\ ConcIdle

\* What __init__ finds at the path.
FileClass ==
  IF ~file_exists THEN "absent"
  ELSE IF user_version = 0 THEN "fresh"
  ELSE IF user_version = DB_SCHEMA_VERSION THEN "current"
  ELSE "incompatible"

\* ---------------------------------------------------------------- __init__
\* Variant of _setup: no branch for a version that is not the expected one.
_SetupAcceptsAnyVersion ==
  IF user_version = 0
    THEN /\ user_version' = DB_SCHEMA_VERSION
         /\ has_table' = TRUE
         /\ pc' = "open"
    ELSE /\ pc' = "open"
         /\ UNCHANGED << user_version, has_table >>

\* Variant of _setup: the table is created and the version is not stamped.
_SetupWithoutStamp ==
  IF user_version = 0
    THEN /\ has_table' = TRUE
         /\ pc' = "open"
         /\ UNCHANGED user_version
    ELSE IF user_version # DB_SCHEMA_VERSION
      THEN /\ pc' = "recreate"
           /\ UNCHANGED << user_version, has_table >>
      ELSE /\ pc' = "open"
           /\ UNCHANGED << user_version, has_table >>

\* Variant of _setup: a file of the expected version is treated as incompatible.
_SetupRejectsCurrent ==
  IF user_version = 0
    THEN /\ user_version' = DB_SCHEMA_VERSION
         /\ has_table' = TRUE
         /\ pc' = "open"
    ELSE /\ pc' = "recreate"
         /\ UNCHANGED << user_version, has_table >>

\* _setup, lines 44-63, one transaction: read the version; a file with none
\* is stamped and gets its table; another version makes _setup return False
\* (pc "recreate": the loop body runs next), anything else True (pc "open").
_setup ==
  IF user_version = 0
    THEN /\ user_version' = DB_SCHEMA_VERSION
         /\ has_table' = TRUE
         /\ pc' = "open"
    ELSE IF user_version # DB_SCHEMA_VERSION
      THEN /\ pc' = "recreate"
           /\ UNCHANGED << user_version, has_table >>
      ELSE /\ pc' = "open"
           /\ UNCHANGED << user_version, has_table >>

\* Lines 26-37: mkdir, sqlite3.connect (which creates a missing file) and the
\* first call of _setup.
Open ==
  /\ pc = "closed"
  /\ opened_from' = FileClass
  /\ file_exists' = TRUE
  /\ recoveries' = 0
  /\ lastOp' = NoOp
  /\ _setup
  /\ UNCHANGED << cache_entries, clock >>
  /\ UNCHANGED concvars

\* Line 37 again, after the loop body: the next call of _setup.
Retry ==
  /\ pc = "retry"
  /\ _setup
  /\ UNCHANGED << file_exists, cache_entries, recoveries, opened_from, clock, lastOp >>
  /\ UNCHANGED concvars

\* The body of the while loop, lines 38-40: close, unlink, connect again.
\* The loop has no counter and no raise; MaxRecover only bounds the model.
Recreate ==
  /\ pc = "recreate"
  /\ recoveries < MaxRecover
  /\ recoveries' = recoveries + 1
  /\ file_exists' = TRUE
  /\ user_version' = 0
  /\ has_table' = FALSE
  /\ cache_entries' = NoRows
  /\ pc' = "retry"
  /\ UNCHANGED << opened_from, clock, lastOp >>
  /\ UNCHANGED concvars

\* A process of a release whose _DB_SCHEMA_VERSION differs runs the same
\* __init__ on the same path: it finds a file that is not its own, replaces it
\* and stamps its version.  It acts while this process holds no validated
\* store: before __init__, or between the unlink and the next _setup.
OtherRelease ==
  /\ pc \in {"closed", "retry"}
  /\ user_version # OtherVersion
  /\ file_exists' = TRUE
  /\ user_version' = OtherVersion
  /\ has_table' = TRUE
  /\ cache_entries' = NoRows
  /\ UNCHANGED << pc, recoveries, opened_from, clock, lastOp >>
  /\ UNCHANGED concvars

\* The process exits; the file stays ("Cached values may already be present").
Exit ==
  /\ pc = "open"
  /\ pc' = "closed"
  /\ recoveries' = 0
  /\ opened_from' = "none"
  /\ lastOp' = NoOp
  /\ UNCHANGED << file_exists, user_version, has_table, cache_entries, clock >>
  /\ UNCHANGED concvars

\* --------------------------------------------------------------------- get
\* Lines 65-80, under the lock and in one transaction.
Get(key) ==
  /\ pc = "open"
  /\ IF EmptyKey(key)
       THEN /\ lastOp' = [NoOp EXCEPT !.op = "get", !.key = key,
                                      !.raised = "ValueError"]
            /\ UNCHANGED << cache_entries, clock >>
       ELSE \E now \in Readings :
              LET row == fetchone(cache_entries, key)
              IN /\ clock' = now
                 /\ IF row = None
                      THEN /\ lastOp' = [NoOp EXCEPT !.op = "get", !.key = key]
                           /\ UNCHANGED cache_entries
                      ELSE /\ cache_entries' = Touch(cache_entries, key, now)
                           /\ lastOp' = [NoOp EXCEPT !.op = "get", !.key = key,
                                           !.ret = Some(row[1].content)]
  /\ UNCHANGED << file_exists, user_version, has_table, pc, recoveries, opened_from >>
  /\ UNCHANGED concvars

\* --------------------------------------------------------------------- put
\* Lines 82-107, under the lock and in one transaction: the upsert, then the
\* DELETE of every row whose running size, most recent first, is over the limit.
Put(key, value) ==
  /\ pc = "open"
  /\ IF EmptyKey(key)
       THEN /\ lastOp' = [NoOp EXCEPT !.op = "put", !.key = key,
                                      !.raised = "ValueError"]
            /\ UNCHANGED << cache_entries, clock >>
       ELSE \E now \in Readings :
              LET up == Upsert(cache_entries, key, value, now)
              IN \E ord \in RecencyOrders(up) :
                   /\ clock' = now
                   /\ cache_entries' = Restrict(up, DOMAIN up \ EvictedKeys(up, ord))
                   /\ lastOp' = [NoOp EXCEPT !.op = "put", !.key = key, !.val = value,
                                   !.evicted = EvictedKeys(up, ord),
                                   !.distinct = DistinctTimes(up),
                                   !.after = IF lastOp.op = "get" /\ lastOp.ret # None
                                               THEN lastOp.key ELSE ""]
  /\ UNCHANGED << file_exists, user_version, has_table, pc, recoveries, opened_from >>
  /\ UNCHANGED concvars

Next ==
  \/ Open
  \/ Retry
  \/ Recreate
  \/ OtherRelease
  \/ Exit
  \/ \E key \in AllKeys : Get(key)
  \/ \E key \in AllKeys, value \in Values : Put(key, value)

Spec == Init /\ [][Next]_vars

\* ------------------------------------------------- __init__ run to its end
\* The body of the while loop (lines 38-40) as often as the loop runs it:
\* Recreate without the bound of the model, the count stopping at MaxRecover.
LoopBody ==
  /\ pc = "recreate"
  /\ recoveries' = IF recoveries < MaxRecover THEN recoveries + 1 ELSE recoveries
  /\ file_exists' = TRUE
  /\ user_version' = 0
  /\ has_table' = FALSE
  /\ cache_entries' = NoRows
  /\ pc' = "retry"
  /\ UNCHANGED << opened_from, clock, lastOp >>
  /\ UNCHANGED concvars

NextLive ==
  \/ Open
  \/ Retry
  \/ LoopBody
  \/ OtherRelease
  \/ Exit
  \/ \E key \in AllKeys : Get(key)
  \/ \E key \in AllKeys, value \in Values : Put(key, value)

\* The thread that runs __init__ goes on running it: the loop body and the
\* next call of _setup are taken when they are next.  Nothing is assumed of
\* the other release, nor of the callers of get and put.
SpecLive == Init /\ [][NextLive]_vars /\ WF_vars(Retry) /\ WF_vars(LoopBody)

\* ----------------------------------------------- gets and puts on three keys
\* An open store used with three keys and values that fit the budget, for what
\* depends on the order of use of more than two entries.
LruKeys == Keys \cup {"c"}
LruValues == {v \in Values : Len(v) >= 1 /\ Len(v) <= size_limit}

InitLru ==
  /\ file_exists = TRUE
  /\ user_version = DB_SCHEMA_VERSION
  /\ has_table = TRUE
  /\ cache_entries = NoRows
  /\ pc = "open"
  /\ recoveries = 0
  /\ opened_from = "fresh"
  /\ clock = 0
  /\ lastOp = NoOp
  /\ ConcIdle

NextLru ==
  \/ \E key \in LruKeys : Get(key)
  \/ \E key \in LruKeys, value \in LruValues : Put(key, value)

SpecLru == InitLru /\ [][NextLru]_vars

\* ------------------------------------------- get and put, statement by statement
\* The rows a statement of connection p reads: its own uncommitted changes if
\* it has any, else what is committed.
View(p) == IF work[p] = None THEN cache_entries ELSE work[p][1]

\* Variant of Durable: every statement commits on its own (autocommit=True).
DurableAutocommit(durable, changed) == changed

\* autocommit=False (lines 34-35, 45-46): what the file holds after a statement
\* changed the rows to `changed` is still `durable`; only the commit at the end
\* of the with block writes it.
Durable(durable, changed) == durable

\* SQLite grants SHARED to p unless another connection's commit is pending.
CanRead(p) == pending \in {"none", p}
\* SQLite grants RESERVED to p unless another connection holds it.
CanWrite(p) == CanRead(p) /\ reserved \in {"none", p}
\* p's commit gets EXCLUSIVE once no other connection holds SHARED.
CanCommit(p) == shared \ {p} = {}

\* A thread calls get or put: lines 67-68 and 84-85 raise on an empty key.
Call(t, op, key, value) ==
  /\ tpc[t] = "idle"
  /\ calls < MaxCalls
  /\ calls' = calls + 1
  /\ targ' = [targ EXCEPT ![t] = [op |-> op, key |-> key, val |-> value]]
  /\ IF EmptyKey(key)
       THEN /\ tret' = [tret EXCEPT ![t] = Ret("ValueError")]
            /\ tpc' = [tpc EXCEPT ![t] = "raise"]
       ELSE /\ tpc' = [tpc EXCEPT ![t] = "lock"]
            /\ UNCHANGED tret
  /\ UNCHANGED << cache_entries, clock, tseen, db_lock, work, shared, reserved,
                  pending, committed, seqvars >>

\* Variant of Acquire: the call goes on without waiting for the lock.
AcquireWithoutWaiting(t) ==
  /\ tpc[t] = "lock"
  /\ db_lock' = [db_lock EXCEPT ![ProcOf(t)] = t]
  /\ tpc' = [tpc EXCEPT ![t] = IF targ[t].op = "get" THEN "select" ELSE "upsert"]
  /\ UNCHANGED << cache_entries, clock, targ, tseen, tret, work, shared, reserved,
                  pending, calls, committed, seqvars >>

\* with self._db_lock (lines 69, 86): wait for the lock of this process.
Acquire(t) ==
  /\ tpc[t] = "lock"
  /\ db_lock[ProcOf(t)] = "free"
  /\ db_lock' = [db_lock EXCEPT ![ProcOf(t)] = t]
  /\ tpc' = [tpc EXCEPT ![t] = IF targ[t].op = "get" THEN "select" ELSE "upsert"]
  /\ UNCHANGED << cache_entries, clock, targ, tseen, tret, work, shared, reserved,
                  pending, calls, committed, seqvars >>

\* Lines 71-75: SELECT content ... WHERE key = ?, fetchone.
Select(t) ==
  LET p == ProcOf(t)
      key == targ[t].key
  IN /\ tpc[t] = "select"
     /\ CanRead(p)
     /\ shared' = shared \cup {p}
     /\ tseen' = [tseen EXCEPT ![t] = fetchone(View(p), key)]
     /\ tpc' = [tpc EXCEPT ![t] = IF fetchone(View(p), key) = None
                                    THEN "commit" ELSE "update"]
     /\ UNCHANGED << cache_entries, clock, targ, tret, db_lock, work, reserved,
                     pending, calls, committed, seqvars >>

\* Lines 76-79: UPDATE cache_entries SET last_accessed = :now WHERE key = :key.
Update(t) ==
  LET p == ProcOf(t)
      key == targ[t].key
  IN /\ tpc[t] = "update"
     /\ CanWrite(p)
     /\ \E now \in Readings :
          LET new == Touch(View(p), key, now)
          IN /\ clock' = now
             /\ work' = [work EXCEPT ![p] = Some(new)]
             /\ cache_entries' = Durable(cache_entries, new)
     /\ reserved' = p
     /\ tpc' = [tpc EXCEPT ![t] = "commit"]
     /\ UNCHANGED << targ, tseen, tret, db_lock, shared, pending, calls, committed, seqvars >>

\* Lines 88-93: the INSERT ... ON CONFLICT DO UPDATE of put.
UpsertStmt(t) ==
  LET p == ProcOf(t)
  IN /\ tpc[t] = "upsert"
     /\ CanWrite(p)
     /\ \E now \in Readings :
          LET new == Upsert(View(p), targ[t].key, targ[t].val, now)
          IN /\ clock' = now
             /\ work' = [work EXCEPT ![p] = Some(new)]
             /\ cache_entries' = Durable(cache_entries, new)
     /\ shared' = shared \cup {p}
     /\ reserved' = p
     /\ tpc' = [tpc EXCEPT ![t] = "sweep"]
     /\ UNCHANGED << targ, tseen, tret, db_lock, pending, calls, committed, seqvars >>

\* Lines 94-107: the DELETE of put, in the same transaction.
Sweep(t) ==
  LET p == ProcOf(t)
  IN /\ tpc[t] = "sweep"
     /\ \E ord \in RecencyOrders(View(p)) :
          LET new == Restrict(View(p), DOMAIN View(p) \ EvictedKeys(View(p), ord))
          IN /\ work' = [work EXCEPT ![p] = Some(new)]
             /\ cache_entries' = Durable(cache_entries, new)
     /\ tpc' = [tpc EXCEPT ![t] = "commit"]
     /\ UNCHANGED << clock, targ, tseen, tret, db_lock, shared, reserved, pending,
                     calls, committed, seqvars >>

\* What the call returns once its transaction is committed (lines 75, 80, 107).
Result(t) ==
  IF targ[t].op = "put" THEN Ret("ok")
  ELSE IF tseen[t] = None THEN Ret("absent")
  ELSE [kind |-> "bytes", val |-> tseen[t][1].content]

\* Leaving `with self._connection` normally: commit.  A transaction that only
\* read gives up SHARED; one that wrote waits (pending) until no other
\* connection reads, then writes its rows to the file.
Commit(t) ==
  LET p == ProcOf(t)
  IN /\ tpc[t] = "commit"
     /\ IF work[p] = None
          THEN /\ shared' = shared \ {p}
               /\ tpc' = [tpc EXCEPT ![t] = "unlock"]
               /\ tret' = [tret EXCEPT ![t] = Result(t)]
               /\ UNCHANGED << cache_entries, work, reserved, pending, committed, seqvars >>
          ELSE IF CanCommit(p)
            THEN /\ cache_entries' = work[p][1]
                 /\ committed' = committed \cup
                      {<< k, work[p][1][k] >> : k \in DOMAIN work[p][1]}
                 /\ work' = [work EXCEPT ![p] = None]
                 /\ shared' = shared \ {p}
                 /\ reserved' = "none"
                 /\ pending' = "none"
                 /\ tpc' = [tpc EXCEPT ![t] = "unlock"]
                 /\ tret' = [tret EXCEPT ![t] = Result(t)]
            ELSE /\ pending = "none"
                 /\ pending' = p
                 /\ UNCHANGED << cache_entries, work, shared, reserved, tpc, tret,
                                 committed, seqvars >>
     /\ UNCHANGED << clock, targ, tseen, db_lock, calls, seqvars >>

\* Variant of Blocked: sqlite3 waits for the lock without a timeout.
BlockedWaitsForever(t) == FALSE

\* The statement the thread is at cannot get its SQLite lock.
Blocked(t) ==
  LET p == ProcOf(t)
  IN \/ tpc[t] = "select" /\ ~CanRead(p)
     \/ tpc[t] \in {"update", "upsert"} /\ ~CanWrite(p)
     \/ tpc[t] = "commit" /\ work[p] # None /\ ~CanCommit(p)

\* sqlite3 gives up waiting for the lock (its timeout): OperationalError leaves
\* the with block, which rolls the transaction back.
Busy(t) ==
  LET p == ProcOf(t)
  IN /\ Blocked(t)
     /\ work' = [work EXCEPT ![p] = None]
     /\ shared' = shared \ {p}
     /\ reserved' = IF reserved = p THEN "none" ELSE reserved
     /\ pending' = IF pending = p THEN "none" ELSE pending
     /\ tret' = [tret EXCEPT ![t] = Ret("OperationalError")]
     /\ tpc' = [tpc EXCEPT ![t] = "unlock"]
     /\ UNCHANGED << cache_entries, clock, targ, tseen, db_lock, calls, committed, seqvars >>

\* Leaving `with self._db_lock`: the lock is released and the call returns or
\* raises tret to its caller.
Release(t) ==
  /\ tpc[t] = "unlock"
  /\ db_lock' = [db_lock EXCEPT ![ProcOf(t)] = "free"]
  /\ tpc' = [tpc EXCEPT ![t] = "idle"]
  /\ targ' = [targ EXCEPT ![t] = NoCall]
  /\ tseen' = [tseen EXCEPT ![t] = None]
  /\ tret' = [tret EXCEPT ![t] = NoRet]
  /\ UNCHANGED << cache_entries, clock, work, shared, reserved,
                  pending, calls, committed, seqvars >>

\* Lines 68 and 85: the ValueError reaches the caller; no lock was taken.
Raise(t) ==
  /\ tpc[t] = "raise"
  /\ tpc' = [tpc EXCEPT ![t] = "idle"]
  /\ targ' = [targ EXCEPT ![t] = NoCall]
  /\ tret' = [tret EXCEPT ![t] = NoRet]
  /\ UNCHANGED << cache_entries, clock, tseen, db_lock, work, shared, reserved,
                  pending, calls, committed, seqvars >>

\* The process of thread t dies while t is inside a call (killed, power lost):
\* its threads and its lock are gone, and SQLite rolls back what its connection
\* had not committed.  A new process takes its place on the same file.
ProcessFails(t) ==
  LET p == ProcOf(t)
      mine == {u \in Threads : ProcOf(u) = p}
  IN /\ tpc[t] \notin {"idle", "raise"}
     /\ tpc' = [u \in Threads |-> IF u \in mine THEN "idle" ELSE tpc[u]]
     /\ targ' = [u \in Threads |-> IF u \in mine THEN NoCall ELSE targ[u]]
     /\ tseen' = [u \in Threads |-> IF u \in mine THEN None ELSE tseen[u]]
     /\ tret' = [u \in Threads |-> IF u \in mine THEN NoRet ELSE tret[u]]
     /\ db_lock' = [db_lock EXCEPT ![p] = "free"]
     /\ work' = [work EXCEPT ![p] = None]
     /\ shared' = shared \ {p}
     /\ reserved' = IF reserved = p THEN "none" ELSE reserved
     /\ pending' = IF pending = p THEN "none" ELSE pending
     /\ UNCHANGED << cache_entries, clock, calls, committed, seqvars >>

\* Both processes have opened the store, which is stamped, has its table and
\* holds no rows yet.
InitConc ==
  /\ file_exists = TRUE
  /\ user_version = DB_SCHEMA_VERSION
  /\ has_table = TRUE
  /\ cache_entries = NoRows
  /\ pc = "open"
  /\ recoveries = 0
  /\ opened_from = "fresh"
  /\ clock = 0
  /\ lastOp = NoOp
  /\ ConcIdle

NextConc ==
  \E t \in Threads :
     \/ \E key \in AllKeys : Call(t, "get", key, None)
     \/ \E key \in AllKeys, value \in Values : Call(t, "put", key, value)
     \/ Raise(t)
     \/ Acquire(t)
     \/ Select(t)
     \/ Update(t)
     \/ UpsertStmt(t)
     \/ Sweep(t)
     \/ Commit(t)
     \/ Busy(t)
     \/ Release(t)
     \/ ProcessFails(t)

SpecConc == InitConc /\ [][NextConc]_vars

\* ------------------------------------------ get and put under fair scheduling
\* The calls of the threads on one key (and the empty key), with values of one
\* byte; no process dies.
FairKeys == {"a", ""}
FairValues == {v \in Values : Len(v) = 1}

\* The steps of thread t once it is inside a call, the wait for
\* self._db_lock apart.
Step(t) ==
  \/ Raise(t)
  \/ Select(t)
  \/ Update(t)
  \/ UpsertStmt(t)
  \/ Sweep(t)
  \/ Commit(t)
  \/ Busy(t)
  \/ Release(t)

NextFair ==
  \E t \in Threads :
     \/ \E key \in FairKeys : Call(t, "get", key, None)
     \/ \E key \in FairKeys, value \in FairValues : Call(t, "put", key, value)
     \/ Raise(t)
     \/ Acquire(t)
     \/ Select(t)
     \/ Update(t)
     \/ UpsertStmt(t)
     \/ Sweep(t)
     \/ Commit(t)
     \/ Busy(t)
     \/ Release(t)

\* Fair scheduling: a thread inside a call that can take its next step takes
\* it (a statement that waits for SQLite's lock either gets it or times out),
\* and a thread waiting for self._db_lock gets it if it is free again and
\* again.  Nothing makes a thread start a call.
Fairness ==
  \A t \in Threads : WF_vars(Step(t)) /\ SF_vars(Acquire(t))

SpecFair == InitConc /\ [][NextFair]_vars /\ Fairness

\* ------------------------------------------ _setup, statement by statement
\* Each process of Procs runs __init__ on the same path.  Here tpc, tseen,
\* tret and work are per process: tpc is the statement of _setup the process is
\* at, tseen the version its PRAGMA read, work the version and table its
\* transaction has written and not committed; calls counts the connects.
\* The file is never one of another release here, so the loop body of
\* __init__ (Recreate) does not run.
Schema(p) ==
  IF work[p] = None THEN [user_version |-> user_version, has_table |-> has_table]
  ELSE work[p][1]

\* Lines 34-35 and 45-47: connect (a missing file is created, empty) and
\* enter `with self._connection`; autocommit=False has a transaction open.
Connect(p) ==
  /\ tpc[p] = "closed"
  /\ calls < MaxCalls
  /\ calls' = calls + 1
  /\ file_exists' = TRUE
  /\ tpc' = [tpc EXCEPT ![p] = "version"]
  /\ UNCHANGED << user_version, has_table, cache_entries, pc, recoveries,
                  opened_from, clock, lastOp, targ, tseen, tret, db_lock, work,
                  shared, reserved, pending, committed >>

\* Line 49: PRAGMA main.user_version, read under SQLite's SHARED lock, and
\* the tests of lines 50 and 60.
PragmaRead(p) ==
  LET v == Schema(p).user_version
  IN /\ tpc[p] = "version"
     /\ CanRead(p)
     /\ shared' = shared \cup {p}
     /\ tseen' = [tseen EXCEPT ![p] = Some(v)]
     /\ tpc' = [tpc EXCEPT ![p] = IF v = 0 THEN "stamp"
                                    ELSE IF v # DB_SCHEMA_VERSION THEN "mismatch"
                                    ELSE "commit"]
     /\ UNCHANGED << cache_entries, clock, targ, tret, db_lock, work, reserved,
                     pending, calls, committed, seqvars >>

\* Line 51: PRAGMA main.user_version = _DB_SCHEMA_VERSION, a write: it takes
\* SQLite's RESERVED lock.
PragmaWrite(p) ==
  /\ tpc[p] = "stamp"
  /\ CanWrite(p)
  /\ reserved' = p
  /\ work' = [work EXCEPT ![p] = Some([Schema(p) EXCEPT !.user_version = DB_SCHEMA_VERSION])]
  /\ tpc' = [tpc EXCEPT ![p] = "create"]
  /\ UNCHANGED << cache_entries, clock, targ, tseen, tret, db_lock, shared,
                  pending, calls, committed, seqvars >>

\* Lines 52-59: CREATE TABLE cache_entries, which raises if the table exists.
CreateTable(p) ==
  /\ tpc[p] = "create"
  /\ IF Schema(p).has_table
       THEN /\ work' = [work EXCEPT ![p] = None]
            /\ shared' = shared \ {p}
            /\ reserved' = IF reserved = p THEN "none" ELSE reserved
            /\ tret' = [tret EXCEPT ![p] = Ret("OperationalError")]
            /\ tpc' = [tpc EXCEPT ![p] = "raised"]
       ELSE /\ work' = [work EXCEPT ![p] = Some([Schema(p) EXCEPT !.has_table = TRUE])]
            /\ tpc' = [tpc EXCEPT ![p] = "commit"]
            /\ UNCHANGED << shared, reserved, tret >>
  /\ UNCHANGED << cache_entries, clock, targ, tseen, db_lock, pending, calls,
                  committed, seqvars >>

\* Leaving the with block of _setup (line 63, return True): commit.  A
\* transaction that wrote waits until no other connection reads, then the
\* version and the table reach the file together.
SetupCommit(p) ==
  /\ tpc[p] = "commit"
  /\ IF work[p] = None
       THEN /\ shared' = shared \ {p}
            /\ tpc' = [tpc EXCEPT ![p] = "opened"]
            /\ tret' = [tret EXCEPT ![p] = Ret("ok")]
            /\ UNCHANGED << user_version, has_table, work, reserved, pending >>
       ELSE IF CanCommit(p)
         THEN /\ user_version' = work[p][1].user_version
              /\ has_table' = work[p][1].has_table
              /\ work' = [work EXCEPT ![p] = None]
              /\ shared' = shared \ {p}
              /\ reserved' = "none"
              /\ pending' = "none"
              /\ tpc' = [tpc EXCEPT ![p] = "opened"]
              /\ tret' = [tret EXCEPT ![p] = Ret("ok")]
         ELSE /\ pending = "none"
              /\ pending' = p
              /\ UNCHANGED << user_version, has_table, work, shared, reserved, tpc, tret >>
  /\ UNCHANGED << file_exists, cache_entries, pc, recoveries, opened_from, clock,
                  lastOp, targ, tseen, db_lock, calls, committed >>

\* The statement the process is at cannot get its SQLite lock.
SetupBlocked(p) ==
  \/ tpc[p] = "version" /\ ~CanRead(p)
  \/ tpc[p] = "stamp" /\ ~CanWrite(p)
  \/ tpc[p] = "commit" /\ work[p] # None /\ ~CanCommit(p)

\* sqlite3 gives up waiting for the lock: OperationalError leaves the with
\* block, which rolls back, and leaves _setup and __init__, which catch nothing.
SetupBusy(p) ==
  /\ SetupBlocked(p)
  /\ work' = [work EXCEPT ![p] = None]
  /\ shared' = shared \ {p}
  /\ reserved' = IF reserved = p THEN "none" ELSE reserved
  /\ pending' = IF pending = p THEN "none" ELSE pending
  /\ tret' = [tret EXCEPT ![p] = Ret("OperationalError")]
  /\ tpc' = [tpc EXCEPT ![p] = "raised"]
  /\ UNCHANGED << cache_entries, clock, targ, tseen, db_lock, calls, committed, seqvars >>

\* The process is done with the store, or gives up after the error: it may
\* run __init__ again later.
Close(p) ==
  /\ tpc[p] \in {"opened", "raised"}
  /\ tpc' = [tpc EXCEPT ![p] = "closed"]
  /\ tseen' = [tseen EXCEPT ![p] = None]
  /\ tret' = [tret EXCEPT ![p] = NoRet]
  /\ UNCHANGED << cache_entries, clock, targ, db_lock, work, shared, reserved,
                  pending, calls, committed, seqvars >>

\* No process has opened the path yet; the file is absent, empty, or stamped
\* with the expected version.
InitSetup ==
  /\ \/ /\ file_exists = FALSE
        /\ user_version = 0
        /\ has_table = FALSE
     \/ /\ file_exists = TRUE
        /\ user_version = 0
        /\ has_table = FALSE
     \/ /\ file_exists = TRUE
        /\ user_version = DB_SCHEMA_VERSION
        /\ has_table = TRUE
  /\ cache_entries = NoRows
  /\ pc = "closed"
  /\ recoveries = 0
  /\ opened_from = "none"
  /\ clock = 0
  /\ lastOp = NoOp
  /\ tpc = [p \in Procs |-> "closed"]
  /\ targ = [p \in Procs |-> NoCall]
  /\ tseen = [p \in Procs |-> None]
  /\ tret = [p \in Procs |-> NoRet]
  /\ db_lock = [p \in Procs |-> "free"]
  /\ work = [p \in Procs |-> None]
  /\ shared = {}
  /\ reserved = "none"
  /\ pending = "none"
  /\ calls = 0
  /\ committed = {}

NextSetup ==
  \E p \in Procs :
     \/ Connect(p)
     \/ PragmaRead(p)
     \/ PragmaWrite(p)
     \/ CreateTable(p)
     \/ SetupCommit(p)
     \/ SetupBusy(p)
     \/ Close(p)

SpecSetup == InitSetup /\ [][NextSetup]_vars

\* ------------------------------------------------------------------ claims
\* A step that is a successful put of this instance: in pc "open" only get and
\* put act, and a get leaves lastOp.op = "get".
PutStep ==
  /\ pc = "open" /\ pc' = "open"
  /\ lastOp'.op = "put" /\ lastOp'.raised = ""

\* A step that is a get of the key the last call put.
GetAfterPutStep ==
  /\ pc = "open" /\ pc' = "open"
  /\ lastOp.op = "put" /\ lastOp.raised = ""
  /\ lastOp'.op = "get" /\ lastOp'.key = lastOp.key

\* C1: for every non-empty key k and content v, put(k, v) followed at once by
\* get(k) returns exactly v.
C1_RoundTrip ==
  [][GetAfterPutStep => lastOp'.ret = Some(lastOp.val)]_vars

\* C2: after every put (and get), the sizes of the rows kept sum to at most
\* the budget, or exactly one row is kept.
C2_BudgetOrSingle ==
  \/ TotalSize(cache_entries) <= size_limit
  \/ Cardinality(DOMAIN cache_entries) = 1

\* C2 witness: a put whose sweep deleted another row to keep the row it wrote,
\* and the sizes kept are within the budget.
C2_Witness ==
  /\ lastOp.op = "put"
  /\ lastOp.evicted # {}
  /\ lastOp.key \in DOMAIN cache_entries
  /\ cache_entries[lastOp.key].size > 0
  /\ TotalSize(cache_entries) <= size_limit

\* C3: in every state each row's size is the byte length of its content.
C3_SizeIsLength ==
  \A k \in DOMAIN cache_entries :
     cache_entries[k].size = Len(cache_entries[k].content)

\* C4: after put(k, v) with v longer than the budget, the store holds exactly
\* the entry for k.
C4_OversizeRetained ==
  (lastOp.op = "put" /\ lastOp.raised = "" /\ Len(lastOp.val) > size_limit)
     => DOMAIN cache_entries = {lastOp.key}

\* The rows of `rows`, most recently used first (last_accessed all distinct).
MruFirst(rows) ==
  CHOOSE ord \in Perms(DOMAIN rows) :
     \A i, j \in 1..Len(ord) :
        i < j => rows[ord[i]].last_accessed > rows[ord[j]].last_accessed

\* The longest prefix of the rows, most recently used first, whose sizes
\* together fit the budget.
MaxPrefix(rows) ==
  LET ord == MruFirst(rows)
      fits == {n \in 0..Len(ord) : SumSize(rows, {ord[i] : i \in 1..n}) <= size_limit}
      n == CHOOSE m \in fits : \A o \in fits : o <= m
  IN Restrict(rows, {ord[i] : i \in 1..n})

\* C5: when the rows a put sweeps have distinct last_accessed and sizes over
\* the budget in total, the put keeps exactly the longest most-recently-used
\* prefix that fits the budget and deletes the rest.
C5_KeepsMaxPrefix ==
  [][PutStep =>
       LET up == Upsert(cache_entries, lastOp'.key, lastOp'.val, clock')
       IN (DistinctTimes(up) /\ TotalSize(up) > size_limit)
            => cache_entries' = MaxPrefix(up)]_vars

\* C5 witness: put(a, v) then put(b, w), each value as long as the budget, at
\* different times: a is gone and b is there.
C5_Witness ==
  /\ lastOp.op = "put" /\ lastOp.key = "b"
  /\ lastOp.distinct
  /\ lastOp.evicted = {"a"}
  /\ Len(lastOp.val) = size_limit
  /\ DOMAIN cache_entries = {"b"}
  /\ cache_entries["b"].content = lastOp.val

\* C6: put(k, v2) right after put(k, v1) leaves the entry for k, with
\* content v2.
C6_OverwriteKeepsOne ==
  [][(PutStep /\ lastOp.op = "put" /\ lastOp.raised = "" /\ lastOp'.key = lastOp.key)
       => /\ lastOp'.key \in DOMAIN cache_entries'
          /\ cache_entries'[lastOp'.key].content = lastOp'.val]_vars

\* The last call was a put of a value within the budget, and no other row
\* carries the clock reading the put used.
NormalPut ==
  /\ lastOp.op = "put" /\ lastOp.raised = ""
  /\ Len(lastOp.val) <= size_limit
  /\ \A k \in DOMAIN cache_entries \ {lastOp.key} :
        cache_entries[k].last_accessed < clock

C9_AtMostOneRecovery == recoveries <= 1

\* C10: a get that overlaps a put on its key, from another thread or process,
\* sees the row as some commit left it (before the put or after it) or no row:
\* content, size and last_accessed together, never a put's uncommitted row.
C10_GetSeesCommitted ==
  \A t \in Threads :
     /\ (targ[t].op = "get" /\ tseen[t] # None)
           => << targ[t].key, tseen[t][1] >> \in committed
     /\ (targ[t].op = "get" /\ tret[t].kind = "bytes")
           => /\ tseen[t] # None
              /\ tret[t].val = tseen[t][1].content

\* C10 witness: a get of one process has read the row of a key while a put of
\* the other process on that key holds a different, uncommitted row for it.
C10_Witness ==
  \E g, w \in Threads :
     /\ ProcOf(g) # ProcOf(w)
     /\ targ[g].op = "get" /\ targ[w].op = "put" /\ targ[g].key = targ[w].key
     /\ tpc[g] \in {"update", "commit"} /\ tseen[g] # None
     /\ tpc[w] \in {"sweep", "commit"} /\ work[ProcOf(w)] # None
     /\ targ[w].key \in DOMAIN work[ProcOf(w)][1]
     /\ work[ProcOf(w)][1][targ[w].key] # tseen[g][1]

\* C11: the upsert of a put and its sweep are one unit.  The rows in the file
\* change only when a call's transaction commits, and a committing put takes
\* them from what they were to the upserted and swept rows in one step; a call
\* that fails (lock timeout, death of the process) leaves them as they were.
\* The rows in the file, which are all another connection reads, are never
\* over the budget.
C11_PutAtomic ==
  /\ [](TotalSize(cache_entries) <= size_limit)
  /\ [][cache_entries' # cache_entries =>
          \E t \in Threads :
             /\ tpc[t] = "commit" /\ tpc'[t] = "unlock"
             /\ tret'[t].kind \in {"ok", "bytes"}
             /\ work[ProcOf(t)] # None
             /\ cache_entries' = work[ProcOf(t)][1]
             /\ targ[t].op = "put" =>
                  \E now \in 0..MaxTime :
                     LET up == Upsert(cache_entries, targ[t].key, targ[t].val, now)
                     IN \E ord \in RecencyOrders(up) :
                          cache_entries' =
                             Restrict(up, DOMAIN up \ EvictedKeys(up, ord))]_vars

\* C11 witness: a put has run its upsert and not yet its sweep, its uncommitted
\* rows are over the budget, and a get of the other process is about to read.
C11_Witness ==
  \E w, g \in Threads :
     /\ ProcOf(w) # ProcOf(g)
     /\ targ[w].op = "put" /\ tpc[w] = "sweep"
     /\ work[ProcOf(w)] # None
     /\ TotalSize(work[ProcOf(w)][1]) > size_limit
     /\ work[ProcOf(w)][1] # cache_entries
     /\ targ[g].op = "get" /\ tpc[g] = "select" /\ CanRead(ProcOf(g))

\* C12: a get or put with the empty key raises ValueError and leaves the
\* store as it was.
C12_EmptyKeyRejected ==
  [][(pc = "open" /\ pc' = "open" /\ lastOp'.op # "none" /\ lastOp'.key = "")
       => /\ lastOp'.raised = "ValueError"
          /\ lastOp'.ret = None
          /\ UNCHANGED << cache_entries, file_exists, user_version, has_table >>]_vars

\* C12 witness: a put with the empty key has raised on a store that holds rows.
C12_Witness ==
  /\ lastOp.op = "put" /\ lastOp.key = "" /\ lastOp.raised = "ValueError"
  /\ cache_entries # NoRows

\* C13: a get of a non-empty key that has no row returns None and raises
\* nothing.
C13_MissIsAbsent ==
  (lastOp.op = "get" /\ lastOp.key # "" /\ lastOp.key \notin DOMAIN cache_entries)
     => (lastOp.ret = None /\ lastOp.raised = "")

\* C13 witness: a get has missed on a store that holds a row for another key.
C13_Witness ==
  /\ lastOp.op = "get" /\ lastOp.key # ""
  /\ lastOp.key \notin DOMAIN cache_entries
  /\ cache_entries # NoRows
  /\ lastOp.ret = None /\ lastOp.raised = ""

\* Threads inside `with self._db_lock, self._connection` (lines 69-80, 86-107).
InSection(t) == tpc[t] \in {"select", "update", "upsert", "sweep", "commit", "unlock"}

\* C15: two threads of one process are never both inside the locked section
\* of get or put, and the thread inside is the one holding the lock.
C15_OneInSection ==
  \A t, u \in Threads :
     /\ InSection(t) => db_lock[ProcOf(t)] = t
     /\ (t # u /\ ProcOf(t) = ProcOf(u)) => ~(InSection(t) /\ InSection(u))

\* C15 witness: one thread is in the sweep of its put while another thread of
\* the same process waits for the lock.
C15_Witness ==
  \E t, u \in Threads :
     /\ t # u /\ ProcOf(t) = ProcOf(u)
     /\ tpc[t] = "sweep" /\ tpc[u] = "lock"

GetStep ==
  /\ pc = "open" /\ pc' = "open"
  /\ lastOp'.op = "get"

\* C20: a get leaves the keys, every content and every size as they were, and
\* every last_accessed but that of its key; a get that misses changes no row.
C20_GetOnlyTouches ==
  [][GetStep =>
       /\ DOMAIN cache_entries' = DOMAIN cache_entries
       /\ \A k \in DOMAIN cache_entries :
             /\ cache_entries'[k].content = cache_entries[k].content
             /\ cache_entries'[k].size = cache_entries[k].size
             /\ k # lastOp'.key =>
                  cache_entries'[k].last_accessed = cache_entries[k].last_accessed
       /\ lastOp'.ret = None => cache_entries' = cache_entries]_vars

\* C20 witness: a get has hit its key in a store that holds another row, whose
\* last_accessed is older than the reading the get wrote.
C20_Witness ==
  /\ lastOp.op = "get" /\ lastOp.ret # None
  /\ cache_entries[lastOp.key].last_accessed = clock
  /\ \E k \in DOMAIN cache_entries \ {lastOp.key} :
        cache_entries[k].last_accessed < clock

\* A put of a new key that comes right after a get that found its key.
PutAfterGetStep ==
  /\ PutStep
  /\ lastOp.op = "get" /\ lastOp.ret # None
  /\ lastOp'.key \notin DOMAIN cache_entries

\* C17 as stated: after put(a), put(b), get(a), a put(c) that evicts exactly
\* one of a and b evicts b: the put never evicts the key the get found while it
\* keeps another row that was there.
C17_GetRefreshes ==
  [][PutAfterGetStep =>
       \A b \in DOMAIN cache_entries \ {lastOp.key} :
          ~(lastOp.key \in lastOp'.evicted /\ b \notin lastOp'.evicted)]_vars

\* C17, amended: the same for every row b whose last_accessed is older than
\* the reading of time.time() the get wrote (clock, in the state the get left).
C17_GetRefreshesUnlessTied ==
  [][PutAfterGetStep =>
       \A b \in DOMAIN cache_entries \ {lastOp.key} :
          cache_entries[b].last_accessed < clock
            => ~(lastOp.key \in lastOp'.evicted /\ b \notin lastOp'.evicted)]_vars

\* C17 witness: get(a) found a, then put(c) evicted b alone: a and c are kept.
C17_Witness ==
  /\ lastOp.op = "put" /\ lastOp.key = "c" /\ lastOp.after = "a"
  /\ lastOp.evicted = {"b"}
  /\ DOMAIN cache_entries = {"a", "c"}

\* C18: what a put evicts is fixed by the rows and the call: every order the
\* window may see rows of equal last_accessed in gives the same set of keys.
C18_EvictionDeterministic ==
  [][PutStep =>
       LET up == Upsert(cache_entries, lastOp'.key, lastOp'.val, clock')
       IN \A ord \in RecencyOrders(up) : EvictedKeys(up, ord) = lastOp'.evicted]_vars

\* C14: __init__ always comes to its end: whenever it is in its loop (about to
\* run the body, or about to call _setup again) it later returns.
C14_OpenTerminates ==
  (pc \in {"recreate", "retry"}) ~> (pc = "open")

\* The file is never half initialised: stamped without its table, or with
\* the table and no stamp; and a process whose __init__ returned has both.
SetupNeverTorn ==
  /\ (user_version = DB_SCHEMA_VERSION) <=> has_table
  /\ \A p \in Procs :
        tpc[p] = "opened" => (user_version = DB_SCHEMA_VERSION /\ has_table)

\* C16: no opener sees a half-initialised file, and concurrent opens of a
\* fresh file all succeed: none raises.
C16_SetupAtomic ==
  /\ SetupNeverTorn
  /\ \A p \in Procs : tpc[p] # "raised"

=============================================================================
